---- MODULE Spec2Model ----
(***************************************************************************)
(* Model of the retrieval-grounded chat pipeline of the document           *)
(* assistant: the sliding-window rate limiter (lib/rate-limiter.ts), the   *)
(* chat route handler with its server-sent-event stream, its citation     *)
(* extractors and source list (app/api/chat/route.ts), the output filter   *)
(* and the input filter (lib/content-filter.ts), the chat page's frame     *)
(* reader, and the page tagger of uploaded documents                       *)
(* (lib/pdf-processor.ts, scripts/setup-knowledge-base.mjs).               *)
(*                                                                         *)
(* Time is in milliseconds, as Date.now() gives it.  The two windows keep  *)
(* their source values; the request caps are scaled down (source: 5 per    *)
(* minute, 20 per day, 10 uploads per minute) so that the caps are reached *)
(* within the explored horizon.  Every property below is stated in terms   *)
(* of the cap names, never of their values.                                *)
(***************************************************************************)
EXTENDS Integers, Sequences, FiniteSets, TLC

VARIABLES
    now,        \* Date.now()
    ticks,      \* number of clock advances so far (bounds the horizon)
    store,      \* rate-limiter.ts: store, key -> timestamps (a partial map)
    admitted,   \* history: every timestamp ever pushed for a key, unpruned
    rl,         \* history: the latest direct checkRateLimit call and its result
    pc,         \* chat route: where each POST handler is suspended
    rateCheck,  \* chat route: rateCheck, with the time of the call
    msg,        \* chat route: body.message as parsed
    filterResult,   \* chat route: filterResult, what filterInput returned
    response,   \* chat route: the Response returned to the client
    upstreamCalls,  \* history: calls of client.responses.create per request
    upstream,   \* history: the upstream events the stream loop has consumed
    fullText,   \* chat route: fullText, the accumulated answer
    allSources, \* chat route: allSources, the accumulated sources
    filtered,   \* history: the texts filterOutput was applied to
    frames,     \* chat route: the frames enqueued on the response stream
    cancelled,  \* the client disconnected and the response stream was cancelled
    readsAfterAbort,    \* history: upstream events consumed after the cancel
    clientRead, \* chat page: how many frames the reader loop has processed
    streamedText,   \* chat page: streamedText
    display,    \* chat page: the content of the assistant message
    streamPhase,    \* chat page: streamPhase
    pageTexts,  \* pdf-processor.ts: pageTexts, the text of each page
    blob        \* pdf-processor.ts: the tagged text of the document

rlVars == <<store, admitted, rl>>
admVars == <<pc, rateCheck, msg, filterResult, response, upstreamCalls>>
serverVars == <<upstream, fullText, allSources, filtered, frames, cancelled,
                readsAfterAbort>>
clientVars == <<clientRead, streamedText, display, streamPhase>>
pdfVars == <<pageTexts, blob>>
streamVars == <<serverVars, clientVars>>
reqVars == <<admVars, streamVars>>
vars == <<now, ticks, rlVars, reqVars, pdfVars>>

----------------------------------------------------------------------------
(* Program constants of rate-limiter.ts *)

WINDOW_MS == 60000
DAILY_WINDOW_MS == 86400000
\* caps, scaled (source values 5, 20, 10)
MAX_REQUESTS_PER_MINUTE == 2
MAX_REQUESTS_PER_DAY == 4
MAX_REQUESTS_UPLOAD == 3

(* Bounds of the exploration *)
MaxTicks == 3
MaxAdmits == 4

IPs == {"ip1"}
Endpoints == {"chat", "upload"}
\* clock advances: 1 ms, just under a minute, a minute, and a minute short of
\* a day (60000 + 86340000 = DAILY_WINDOW_MS)
Deltas == {1, 59999, 60000, 86340000}

\* `${endpoint}:${ip}`
Key(endpoint, ip) == <<endpoint, ip>>
Keys == {Key(e, i) : e \in Endpoints, i \in IPs}

----------------------------------------------------------------------------
(* checkRateLimit *)

\* Array.prototype.filter((t) => at - t < window)
Within(ts, at, window) == SelectSeq(ts, LAMBDA t : at - t < window)

\* store.set(key, entry) / entry.timestamps = ...
Put(st, key, ts) == [k \in DOMAIN st \cup {key} |-> IF k = key THEN ts ELSE st[k]]

Allow == [allowed |-> TRUE]
Reject(ms, why) == [allowed |-> FALSE, retryAfterMs |-> ms, reason |-> why]

\* mutant: the burst limit is checked before the daily limit
ChatDecisionBurstFirst(ts, at) ==
    LET recentMinute == Within(ts, at, WINDOW_MS)
    IN  IF Len(recentMinute) >= MAX_REQUESTS_PER_MINUTE
        THEN [ts |-> ts,
              res |-> Reject(WINDOW_MS - (at - recentMinute[1]), "minute")]
        ELSE IF Len(ts) >= MAX_REQUESTS_PER_DAY
        THEN [ts |-> ts, res |-> Reject(DAILY_WINDOW_MS - (at - ts[1]), "daily")]
        ELSE [ts |-> Append(ts, at), res |-> Allow]

\* the chat branch, lines 64-80: daily limit first, then the burst limit
ChatDecision(ts, at) ==
    LET recentMinute == Within(ts, at, WINDOW_MS)
    IN  IF Len(ts) >= MAX_REQUESTS_PER_DAY
        THEN [ts |-> ts, res |-> Reject(DAILY_WINDOW_MS - (at - ts[1]), "daily")]
        ELSE IF Len(recentMinute) >= MAX_REQUESTS_PER_MINUTE
        THEN [ts |-> ts,
              res |-> Reject(WINDOW_MS - (at - recentMinute[1]), "minute")]
        ELSE [ts |-> Append(ts, at), res |-> Allow]

\* mutant: the cap is compared with > instead of >=
UploadDecisionOffByOne(ts, at) ==
    LET recentUploads == Within(ts, at, WINDOW_MS)
    IN  IF Len(recentUploads) > MAX_REQUESTS_UPLOAD
        THEN [ts |-> ts,
              res |-> Reject(WINDOW_MS - (at - recentUploads[1]), "minute")]
        ELSE [ts |-> Append(ts, at), res |-> Allow]

\* mutant: retryAfterMs is computed from the oldest timestamp of the entry
UploadDecisionGlobalOldest(ts, at) ==
    LET recentUploads == Within(ts, at, WINDOW_MS)
    IN  IF Len(recentUploads) >= MAX_REQUESTS_UPLOAD
        THEN [ts |-> ts, res |-> Reject(WINDOW_MS - (at - ts[1]), "minute")]
        ELSE [ts |-> Append(ts, at), res |-> Allow]

\* the upload branch, lines 50-62
UploadDecision(ts, at) ==
    LET recentUploads == Within(ts, at, WINDOW_MS)
    IN  IF Len(recentUploads) >= MAX_REQUESTS_UPLOAD
        THEN [ts |-> ts,
              res |-> Reject(WINDOW_MS - (at - recentUploads[1]), "minute")]
        ELSE [ts |-> Append(ts, at), res |-> Allow]

\* lines 45-48: the lazy prune of timestamps older than 24 hours
Prune(ts, at) == Within(ts, at, DAILY_WINDOW_MS)

\* mutant: the timestamp of a rejected call is recorded as well
checkRateLimitRecordsRejected(st, at, ip, endpoint) ==
    LET key == Key(endpoint, ip)
        old == IF key \in DOMAIN st THEN st[key] ELSE <<>>
        ts  == Prune(old, at)
        d   == IF endpoint = "upload" THEN UploadDecision(ts, at)
                                      ELSE ChatDecision(ts, at)
    IN  [store |-> Put(st, key, IF d.res.allowed THEN d.ts ELSE Append(ts, at)),
         res |-> d.res]

\* mutant: a racing read-modify-write; the call does not see the timestamps
\* written at the same instant and overwrites them
checkRateLimitRacy(st, at, ip, endpoint) ==
    LET key == Key(endpoint, ip)
        old == IF key \in DOMAIN st THEN st[key] ELSE <<>>
        ts  == SelectSeq(Prune(old, at), LAMBDA t : t # at)
        d   == IF endpoint = "upload" THEN UploadDecision(ts, at)
                                      ELSE ChatDecision(ts, at)
    IN  [store |-> Put(st, key, d.ts), res |-> d.res]

\* checkRateLimit(ip, endpoint) at time `at` on store `st`:
\* the store afterwards and the value returned
checkRateLimit(st, at, ip, endpoint) ==
    LET key == Key(endpoint, ip)
        old == IF key \in DOMAIN st THEN st[key] ELSE <<>>
        ts  == Prune(old, at)
        d   == IF endpoint = "upload" THEN UploadDecision(ts, at)
                                      ELSE ChatDecision(ts, at)
    IN  [store |-> Put(st, key, d.ts), res |-> d.res]

\* mutant: the cleanup filters the timestamps and deletes no entry
SweepStoreKeepsEntries(st, at) == [k \in DOMAIN st |-> Prune(st[k], at)]

\* mutant: the cleanup keeps the last minute only
SweepStoreLastMinute(st, at) ==
    LET kept == {k \in DOMAIN st : Len(Within(st[k], at, WINDOW_MS)) # 0}
    IN  [k \in kept |-> Within(st[k], at, WINDOW_MS)]

\* the setInterval callback, lines 18-28
SweepStore(st, at) ==
    LET kept == {k \in DOMAIN st : Len(Prune(st[k], at)) # 0}
    IN  [k \in kept |-> Prune(st[k], at)]

----------------------------------------------------------------------------
(* Actions *)

\* the request slots: each holds one invocation of POST at a time
Reqs == {"r1", "r2"}

NoRateCheck == [at |-> -1, res |-> Allow]
NoMessage == [kind |-> "none", trimmedLength |-> 0, padding |-> 0,
              abusive |-> FALSE, injection |-> FALSE]
\* filterInput has not been called
NoFilterResult == [blocked |-> FALSE, category |-> "unset"]
\* no document has been read
NoPages == <<>>
\* formatPagesForVectorStore has not run
NoBlob == <<[kind |-> "none", document |-> "", page |-> 0, text |-> <<>>]>>
NoResponse == [status |-> 0, contentType |-> "none", retryAfter |-> 0,
               error |-> "none", errorCategory |-> "none"]

Init ==
    /\ now = 0
    /\ ticks = 0
    /\ store = << >>
    /\ admitted = [k \in Keys |-> <<>>]
    /\ rl = <<>>
    /\ pc = [r \in Reqs |-> "idle"]
    /\ rateCheck = [r \in Reqs |-> NoRateCheck]
    /\ msg = [r \in Reqs |-> NoMessage]
    /\ filterResult = [r \in Reqs |-> NoFilterResult]
    /\ response = [r \in Reqs |-> NoResponse]
    /\ upstreamCalls = [r \in Reqs |-> 0]
    /\ upstream = [r \in Reqs |-> <<>>]
    /\ fullText = [r \in Reqs |-> <<>>]
    /\ allSources = [r \in Reqs |-> <<>>]
    /\ filtered = [r \in Reqs |-> <<>>]
    /\ frames = [r \in Reqs |-> <<>>]
    /\ cancelled = [r \in Reqs |-> FALSE]
    /\ readsAfterAbort = [r \in Reqs |-> 0]
    /\ clientRead = [r \in Reqs |-> 0]
    /\ streamedText = [r \in Reqs |-> <<>>]
    /\ display = [r \in Reqs |-> <<>>]
    /\ streamPhase = [r \in Reqs |-> "idle"]
    /\ pageTexts = NoPages
    /\ blob = NoBlob

\* the clock advances (Date.now() is read at non-decreasing times)
Tick(d) ==
    /\ ticks < MaxTicks
    /\ now' = now + d
    /\ ticks' = ticks + 1
    /\ UNCHANGED <<store, admitted, rl>>
    /\ UNCHANGED <<reqVars, pdfVars>>

RECURSIVE SumLen(_, _)
SumLen(f, S) ==
    IF S = {} THEN 0
    ELSE LET k == CHOOSE x \in S : TRUE IN Len(f[k]) + SumLen(f, S \ {k})

\* exploration bound: at most MaxAdmits requests are admitted in a run
Budget(res) == res.allowed => SumLen(admitted, Keys) < MaxAdmits

\* a direct call of checkRateLimit(ip, endpoint)
Check(ip, endpoint) ==
    LET r == checkRateLimit(store, now, ip, endpoint)
        key == Key(endpoint, ip)
    IN  /\ Budget(r.res)
        /\ store' = r.store
        /\ admitted' = IF r.res.allowed
                       THEN [admitted EXCEPT ![key] = Append(@, now)]
                       ELSE admitted
        /\ rl' = <<[key |-> key, endpoint |-> endpoint, at |-> now, res |-> r.res]>>
        /\ UNCHANGED <<now, ticks>>
        /\ UNCHANGED <<reqVars, pdfVars>>

\* the periodic cleanup fires
Sweep ==
    /\ store' = SweepStore(store, now)
    /\ UNCHANGED <<now, ticks, admitted, rl>>
    /\ UNCHANGED <<reqVars, pdfVars>>

NextRL ==
    \/ \E d \in Deltas : Tick(d)
    \/ \E ip \in IPs, e \in Endpoints : Check(ip, e)
    \/ Sweep

SpecRL == Init /\ [][NextRL]_vars

----------------------------------------------------------------------------
(* Properties of the rate limiter, checked under SpecRL *)

Front(s) == SubSeq(s, 1, Len(s) - 1)

\* the latest checkRateLimit call
Call == rl[1]
\* every timestamp admitted for the call's key before the call was made
PreHist == IF Call.res.allowed THEN Front(admitted[Call.key])
                               ELSE admitted[Call.key]
\* how many of them lie in the window trailing the call
DayCount == Len(Within(PreHist, Call.at, DAILY_WINDOW_MS))
MinuteCount == Len(Within(PreHist, Call.at, WINDOW_MS))
Rejected(why) == ~Call.res.allowed /\ Call.res.reason = why

C1_DailyOutsideBurst ==
    /\ rl # <<>> /\ Call.endpoint = "chat"
    /\ Rejected("daily")
    /\ MinuteCount = 0
\* a burst rejection below the daily cap
C1_MinuteBelowDaily ==
    /\ rl # <<>> /\ Call.endpoint = "chat"
    /\ Rejected("minute")
    /\ DayCount < MAX_REQUESTS_PER_DAY

MinuteCap(endpoint) ==
    IF endpoint = "upload" THEN MAX_REQUESTS_UPLOAD ELSE MAX_REQUESTS_PER_MINUTE

\* the window ends the admitted history of a key can fill: each admitted
\* timestamp and the present
WindowEnds(k) == {admitted[k][i] : i \in DOMAIN admitted[k]} \cup {now}
\* admitted timestamps of key k in the window of length w ending at e
InWindow(k, e, w) ==
    Len(SelectSeq(admitted[k], LAMBDA t : t <= e /\ e - t < w))

ViolatedWindow == IF Call.res.reason = "daily" THEN DAILY_WINDOW_MS ELSE WINDOW_MS

\* C4: on a rejection retryAfterMs is the length of the violated window less
\* the age of the oldest admitted timestamp inside that window, hence
\* positive and at most the window's length.
C4_RetryAfterFromViolatedWindow ==
    (rl # <<>> /\ ~Call.res.allowed) =>
        LET inside == Within(PreHist, Call.at, ViolatedWindow)
        IN  /\ inside # <<>>
            /\ Call.res.retryAfterMs = ViolatedWindow - (Call.at - inside[1])
            /\ 0 < Call.res.retryAfterMs
            /\ Call.res.retryAfterMs <= ViolatedWindow

\* a burst rejection of a key whose oldest timestamp has left the 60s window
C4_Witness ==
    /\ rl # <<>> /\ Rejected("minute")
    /\ Call.key \in DOMAIN store
    /\ Call.at - store[Call.key][1] >= WINDOW_MS
\* a daily rejection whose wait is longer than a minute
C4_DailyWait ==
    /\ rl # <<>> /\ Rejected("daily")
    /\ Call.res.retryAfterMs > WINDOW_MS

\* the timestamps the store holds for key k
Stored(k) == IF k \in DOMAIN store THEN store[k] ELSE <<>>
\* what the branches of checkRateLimit return on a list of timestamps
DecisionOn(ts) ==
    IF Call.endpoint = "upload" THEN UploadDecision(ts, Call.at).res
                                ELSE ChatDecision(ts, Call.at).res

\* C25 as stated: the decision of a call is the one the limiter would have
\* made had neither the lazy prune nor the sweep ever removed a timestamp,
\* that is, on the list of every timestamp admitted for the key.
C25_DecisionAsIfNeverPruned ==
    rl # <<>> => Call.res = DecisionOn(PreHist)

\* C25: neither the lazy prune nor the sweep removes a timestamp that is
\* less than 24h old, so the store always holds every admitted timestamp
\* inside the 60s and 24h windows; and the decision of a call is the one
\* made on every timestamp ever admitted for the key that is less than 24h
\* old at the call, whatever checks and sweeps came before.
C25_PruningKeepsLiveTimestamps ==
    /\ \A k \in Keys :
            Within(Stored(k), now, DAILY_WINDOW_MS)
                = Within(admitted[k], now, DAILY_WINDOW_MS)
    /\ rl # <<>> =>
            Call.res = DecisionOn(Within(PreHist, Call.at, DAILY_WINDOW_MS))

\* a call decided on an entry from which expired timestamps were pruned
\* while others, still inside the 24h window, were kept
C25_Witness ==
    /\ rl # <<>> /\ Call.at = now
    /\ Stored(Call.key) # <<>>
    /\ Len(Stored(Call.key)) < Len(PreHist)
    /\ Len(Within(PreHist, now, DAILY_WINDOW_MS)) > 0
\* the rate limiter with a cleanup timer that keeps firing: a sweep that
\* has something to remove is not postponed forever.  Expiry needs a day to
\* pass, so the clock moves in the two long steps.
\* the clock advances by a minute or by a minute short of a day
SweepDeltas == {60000, 86340000}
NextRLFair ==
    \/ \E d \in SweepDeltas : Tick(d)
    \/ \E ip \in IPs, e \in Endpoints : Check(ip, e)
    \/ Sweep
SpecRLFair == Init /\ [][NextRLFair]_vars /\ WF_vars(Sweep)

\* the store holds an entry for k whose timestamps are all 24h old or older
ExpiredEntry(k) ==
    k \in DOMAIN store /\ Within(store[k], now, DAILY_WINDOW_MS) = <<>>

\* C26: with a sweep that keeps firing, an entry whose timestamps have all
\* left the 24h window does not stay: it is deleted by a sweep, unless a new
\* request of the key is recorded in it first; the store never holds an
\* entry with no timestamps, in particular not after a sweep; and an entry
\* that appears for a key the store did not hold starts from an empty list:
\* it holds the timestamp of the request that created it and nothing else.
C26_ExpiredEntryEventuallyDeleted ==
    /\ \A k \in Keys : ExpiredEntry(k) ~> ~ExpiredEntry(k)
    /\ [](\A k \in DOMAIN store : store[k] # <<>>)
    /\ [][\A k \in Keys :
            (k \notin DOMAIN store /\ k \in DOMAIN store') =>
                /\ store'[k] = <<now>>
                /\ admitted'[k] = Append(admitted[k], now)]_vars

\* the sweep has deleted the entry of a key whose requests are all 24h old
C26_Witness ==
    \E k \in Keys :
        /\ k \notin DOMAIN store
        /\ admitted[k] # <<>>
        /\ Within(admitted[k], now, DAILY_WINDOW_MS) = <<>>
\* a request admitted for a key whose entry had been deleted
C26_RestartWitness ==
    /\ rl # <<>> /\ Call.res.allowed /\ Call.at = now
    /\ Stored(Call.key) = <<now>>
    /\ Len(admitted[Call.key]) > 1

\* what a call for the endpoint would be answered at time `at` on the
\* timestamps ts
AnswerAt(endpoint, ts, at) ==
    IF endpoint = "upload" THEN UploadDecision(Prune(ts, at), at).res
                           ELSE ChatDecision(Prune(ts, at), at).res
\* the times at which the client may come back
RetryTimes == {now + d : d \in Deltas}

\* C28: a rejected call records nothing.  After it the list of its key is
\* the list before the call without the timestamps 24h old or older, the
\* entry of every other key is as it was, and the answer a call of the key
\* would get at any later time is the one it would have got had the rejected
\* call not been made: rejected requests do not postpone the next admission.
C28_RejectionRecordsNothing ==
    [][\A ip \in IPs, e \in Endpoints :
          (Check(ip, e) /\ ~rl'[1].res.allowed) =>
              /\ Key(e, ip) \in DOMAIN store'
              /\ store'[Key(e, ip)] = Within(Stored(Key(e, ip)), now,
                                             DAILY_WINDOW_MS)
              /\ \A k \in Keys \ {Key(e, ip)} :
                    /\ k \in DOMAIN store' <=> k \in DOMAIN store
                    /\ k \in DOMAIN store => store'[k] = store[k]
              /\ \A t \in RetryTimes :
                    AnswerAt(e, store'[Key(e, ip)], t)
                        = AnswerAt(e, Stored(Key(e, ip)), t)]_vars

\* a call rejected on an entry that still held expired timestamps, which
\* the call pruned
C28_Witness ==
    /\ rl # <<>> /\ ~Call.res.allowed /\ Call.at = now
    /\ Len(Stored(Call.key)) < Len(admitted[Call.key])
    /\ \A i \in DOMAIN store[Call.key] : store[Call.key][i] # now
\* a client admitted as soon as its window allowed, after rejected attempts
C28_Readmitted ==
    /\ rl # <<>> /\ Call.res.allowed /\ Call.endpoint = "chat"
    /\ Call.at = now
    /\ Len(admitted[Call.key]) > MAX_REQUESTS_PER_MINUTE
    /\ now - admitted[Call.key][Len(admitted[Call.key])
                                   - MAX_REQUESTS_PER_MINUTE] = WINDOW_MS

----------------------------------------------------------------------------
(* The chat route: POST /api/chat, up to the opening of the stream *)

\* content-filter.ts, line 80: the length ceiling of filterInput
MAX_MESSAGE_LENGTH == 2000
\* route.ts, line 144: Math.ceil((rateCheck.retryAfterMs || 60000) / 1000)
DEFAULT_RETRY_MS == 60000
MS_PER_SECOND == 1000

\* every chat request of the model comes from one client (getClientIP)
ClientIP == "ip1"

\* body.message: absent (or not a string), or a string described by the
\* length of its trimmed text, by the number of whitespace characters around
\* it, and by which pattern sets of content-filter.ts match it
Missing == [kind |-> "missing", trimmedLength |-> 0, padding |-> 0,
            abusive |-> FALSE, injection |-> FALSE]
Padded(n, p, a, i) == [kind |-> "string", trimmedLength |-> n, padding |-> p,
                       abusive |-> a, injection |-> i]
Str(n, a, i) == Padded(n, 0, a, i)
\* text.length
Length(m) == m.trimmedLength + m.padding
Messages ==
    {Missing, Str(0, FALSE, FALSE)}
        \cup {Str(12, a, i) : a \in BOOLEAN, i \in BOOLEAN}
        \cup {Str(MAX_MESSAGE_LENGTH + 1, FALSE, i) : i \in BOOLEAN}

\* mutant: the injection patterns are tried before the abuse patterns
filterInputInjectionFirst(m) ==
    IF m.trimmedLength = 0
    THEN [blocked |-> TRUE, category |-> "offtopic"]
    ELSE IF m.trimmedLength > MAX_MESSAGE_LENGTH
    THEN [blocked |-> TRUE, category |-> "inappropriate"]
    ELSE IF m.injection
    THEN [blocked |-> TRUE, category |-> "injection"]
    ELSE IF m.abusive
    THEN [blocked |-> TRUE, category |-> "inappropriate"]
    ELSE [blocked |-> FALSE, category |-> "none"]

\* filterInput(text) on normalized = text.trim(): empty, then the length
\* ceiling, then the abuse patterns, then the injection patterns; the first
\* match decides
filterInput(m) ==
    IF m.trimmedLength = 0
    THEN [blocked |-> TRUE, category |-> "offtopic"]
    ELSE IF m.trimmedLength > MAX_MESSAGE_LENGTH
    THEN [blocked |-> TRUE, category |-> "inappropriate"]
    ELSE IF m.abusive
    THEN [blocked |-> TRUE, category |-> "inappropriate"]
    ELSE IF m.injection
    THEN [blocked |-> TRUE, category |-> "injection"]
    ELSE [blocked |-> FALSE, category |-> "none"]

\* !message || typeof message !== "string" || message.trim().length === 0
MessageRequired(m) == m.kind # "string" \/ m.trimmedLength = 0

\* Math.ceil(a / b) for positive b
CeilDiv(a, b) == (a + b - 1) \div b

\* mutant: the header is rounded down
RetryAfterHeaderFloor(res) ==
    (IF res.retryAfterMs = 0 THEN DEFAULT_RETRY_MS ELSE res.retryAfterMs)
        \div MS_PER_SECOND

\* the Retry-After header of a 429, lines 143-145
RetryAfterHeader(res) ==
    CeilDiv(IF res.retryAfterMs = 0 THEN DEFAULT_RETRY_MS ELSE res.retryAfterMs,
            MS_PER_SECOND)

Json(status, error, category, retryAfter) ==
    [status |-> status, contentType |-> "application/json",
     retryAfter |-> retryAfter, error |-> error, errorCategory |-> category]

\* lines 130-149
RateLimitResponse(res) ==
    Json(429, IF res.reason = "daily" THEN "daily_limit" ELSE "rate_limit",
         "none", RetryAfterHeader(res))
\* lines 160-167
MessageRequiredResponse == Json(400, "Message is required.", "none", 0)
\* lines 173-181
ContentBlockedResponse(f) == Json(400, "content_blocked", f.category, 0)
\* lines 398-410: the outer catch
ServerErrorResponse == Json(500, "message", "none", 0)
\* lines 391-397
StreamResponse ==
    [status |-> 200, contentType |-> "text/event-stream", retryAfter |-> 0,
     error |-> "none", errorCategory |-> "none"]

\* the page sends the message (page.tsx lines 171-172: the phase is
\* "searching") and POST is invoked: lines 127-152 run without suspension,
\* up to the rate-limit rejection or to `await request.json()`
Post(r) ==
    LET c == checkRateLimit(store, now, ClientIP, "chat")
        key == Key("chat", ClientIP)
    IN  /\ pc[r] = "idle"
        /\ Budget(c.res)
        /\ store' = c.store
        /\ admitted' = IF c.res.allowed
                       THEN [admitted EXCEPT ![key] = Append(@, now)]
                       ELSE admitted
        /\ rateCheck' = [rateCheck EXCEPT ![r] = [at |-> now, res |-> c.res]]
        /\ streamPhase' = [streamPhase EXCEPT ![r] = "searching"]
        /\ IF c.res.allowed
           THEN /\ pc' = [pc EXCEPT ![r] = "body"]
                /\ UNCHANGED response
           ELSE /\ pc' = [pc EXCEPT ![r] = "responded"]
                /\ response' = [response EXCEPT ![r] = RateLimitResponse(c.res)]
        /\ UNCHANGED <<now, ticks, pdfVars, rl, msg, filterResult, upstreamCalls,
                     serverVars, clientRead, streamedText, display>>

\* mutant: the outer catch takes the timestamp of the request out of the
\* store again
BodyMalformedRefunds(r) ==
    LET key == Key("chat", ClientIP)
        ts == store[key]
        i == CHOOSE j \in DOMAIN ts : ts[j] = rateCheck[r].at
    IN  /\ pc[r] = "body"
        /\ pc' = [pc EXCEPT ![r] = "responded"]
        /\ response' = [response EXCEPT ![r] = ServerErrorResponse]
        /\ store' = Put(store, key,
                        SubSeq(ts, 1, i - 1) \o SubSeq(ts, i + 1, Len(ts)))
        /\ UNCHANGED <<now, ticks, pdfVars, admitted, rl, rateCheck, msg,
                       filterResult, upstreamCalls, streamVars>>

\* request.json() rejects: the body is not JSON; the outer catch answers
BodyMalformed(r) ==
    /\ pc[r] = "body"
    /\ pc' = [pc EXCEPT ![r] = "responded"]
    /\ response' = [response EXCEPT ![r] = ServerErrorResponse]
    /\ UNCHANGED <<now, ticks, pdfVars, rlVars, rateCheck, msg, filterResult, upstreamCalls, streamVars>>

\* request.json() resolves: lines 153-185, validation and the content
\* filter, up to `await ensureVectorStore()`
ParseBody(r, m) ==
    /\ pc[r] = "body"
    /\ msg' = [msg EXCEPT ![r] = m]
    /\ filterResult' = [filterResult EXCEPT ![r] =
                            IF MessageRequired(m) THEN @ ELSE filterInput(m)]
    /\ IF MessageRequired(m)
       THEN /\ pc' = [pc EXCEPT ![r] = "responded"]
            /\ response' = [response EXCEPT ![r] = MessageRequiredResponse]
       ELSE IF filterInput(m).blocked
       THEN /\ pc' = [pc EXCEPT ![r] = "responded"]
            /\ response' = [response EXCEPT ![r] =
                                ContentBlockedResponse(filterInput(m))]
       ELSE /\ pc' = [pc EXCEPT ![r] = "vectorStore"]
            /\ UNCHANGED response
    /\ UNCHANGED <<now, ticks, pdfVars, rlVars, rateCheck, upstreamCalls, streamVars>>

\* ensureVectorStore() rejects (no store id and the store cannot be created)
\* or getOpenAIClient() throws (OPENAI_API_KEY is not set): lines 185-186
ConfigurationFails(r) ==
    /\ pc[r] = "vectorStore"
    /\ pc' = [pc EXCEPT ![r] = "responded"]
    /\ response' = [response EXCEPT ![r] = ServerErrorResponse]
    /\ UNCHANGED <<now, ticks, pdfVars, rlVars, rateCheck, msg, filterResult, upstreamCalls, streamVars>>

\* ensureVectorStore() resolves: lines 186-209, client.responses.create is
\* called and awaited
CallUpstream(r) ==
    /\ pc[r] = "vectorStore"
    /\ pc' = [pc EXCEPT ![r] = "create"]
    /\ upstreamCalls' = [upstreamCalls EXCEPT ![r] = @ + 1]
    /\ UNCHANGED <<now, ticks, pdfVars, rlVars, rateCheck, msg, filterResult, response, streamVars>>

\* mutant: a rejected call is issued again
UpstreamRefusesAndRetries(r) ==
    /\ pc[r] = "create"
    /\ upstreamCalls[r] < 2
    /\ upstreamCalls' = [upstreamCalls EXCEPT ![r] = @ + 1]
    /\ UNCHANGED <<now, ticks, pdfVars, rlVars, pc, rateCheck, msg, filterResult, response, streamVars>>

\* client.responses.create rejects: the outer catch answers, nothing retries
UpstreamRefuses(r) ==
    /\ pc[r] = "create"
    /\ pc' = [pc EXCEPT ![r] = "responded"]
    /\ response' = [response EXCEPT ![r] = ServerErrorResponse]
    /\ UNCHANGED <<now, ticks, pdfVars, rlVars, rateCheck, msg, filterResult, upstreamCalls, streamVars>>

\* client.responses.create resolves: lines 211-397, the ReadableStream is
\* built, start() runs up to its first read, the Response is returned
OpenStream(r) ==
    /\ pc[r] = "create"
    /\ pc' = [pc EXCEPT ![r] = "streaming"]
    /\ response' = [response EXCEPT ![r] = StreamResponse]
    /\ UNCHANGED <<now, ticks, pdfVars, rlVars, rateCheck, msg, filterResult, upstreamCalls, streamVars>>

----------------------------------------------------------------------------
(* The chat route: the stream loop, ReadableStream.start, lines 225-389 *)

\* upstream events one session consumes at most
MaxEvents == 3

\* Text is a sequence of tokens; the delta of an event is one token, or the
\* empty string.  Tokens are separated by single blanks, so that trim() and
\* the collapsing of blank lines have nothing to remove.  Each token stands
\* for a piece of text:
\*   "a"   a word of the answer ("text")
\*   "M"   a whole citation marker the cleaning step knows,
\*         [DOCUMENT: Policy.pdf | PAGE: 5] (or 【4:5†Policy.pdf】)
\*   "N"   the marker 【4†Policy.pdf】, which names no page
\*   "L"   an echo of the instructions, "system prompt"
\*   "S"   the trailing line "Sources: Policy.pdf page 3"
\*   "SA"  its Arabic form, "المصادر: Policy.pdf صفحة 3"
\*   "F"   the file name Policies001.pdf, mentioned in a sentence
\*   "NF"  the phrase "Not found in the provided documents."
\*   "P7"  the words "page 7" in the text of a retrieved chunk
\*   "p7"  the label "page: 7" in the text of a retrieved chunk
DeltaTexts == {<<>>, <<"a">>, <<"M">>}
\* event kinds that carry no answer text: a file-search result event and an
\* event of a kind the loop does not handle
OtherKinds == {"response.file_search_call.results", "response.in_progress"}

\* the position of the first token of a text that is one of tokens, or 0
FirstIndex(text, tokens) ==
    IF \E i \in 1..Len(text) : text[i] \in tokens
    THEN CHOOSE i \in 1..Len(text) :
            /\ text[i] \in tokens
            /\ \A j \in 1..(i - 1) : text[j] \notin tokens
    ELSE 0

----------------------------------------------------------------------------
(* Sources: types/index.ts Source, and the two extractors of the route *)

\* the page of a Source that has no page property
NoPage == -1
Source(doc, page) == [document |-> doc, page |-> page]
\* (s.page ?? 0), (a.page || 0)
PageKey(s) == IF s.page = NoPage THEN 0 ELSE s.page
SameSource(s, t) == s.document = t.document /\ PageKey(s) = PageKey(t)
Has(sources, src) == \E i \in 1..Len(sources) : SameSource(sources[i], src)

\* lines 16-21: the add() of extractSourcesFromText; a page that is
\* undefined or not positive is dropped
add(sources, doc, page) ==
    LET p == IF page > 0 THEN page ELSE NoPage
    IN  IF Has(sources, Source(doc, p)) THEN sources
        ELSE Append(sources, Source(doc, p))

\* the pattern of extractSourcesFromText a token matches, with the document
\* and page the match gives.  "SA" matches pattern 4, which takes the file
\* from the 200 characters around it: none of the tokens holds
\* "PoliciesEn001", so the file is Policies001.pdf.
NoCitation == [pattern |-> "none", document |-> "", page |-> NoPage]
Citation(t) ==
    CASE t = "M" -> [pattern |-> "1", document |-> "Policy.pdf", page |-> 5]
      [] t = "N" -> [pattern |-> "2b", document |-> "Policy.pdf",
                     page |-> NoPage]
      [] t = "SA" -> [pattern |-> "4", document |-> "Policies001.pdf",
                      page |-> 3]
      [] OTHER -> NoCitation

\* the patterns in the order the function runs them (1, 2, 2b, 2c, the
\* Arabic block, the English block, the standalone Arabic page)
Patterns == <<"1", "2", "2b", "2c", "3", "3b", "4">>

\* one while loop of extractSourcesFromText: the matches of one pattern, in
\* the order of the text
RECURSIVE AddMatches(_, _, _)
AddMatches(sources, text, pattern) ==
    IF text = <<>> THEN sources
    ELSE LET c == Citation(Head(text))
             next == IF c.pattern = pattern
                     THEN add(sources, c.document, c.page)
                     ELSE sources
         IN  AddMatches(next, Tail(text), pattern)

RECURSIVE AddPatterns(_, _, _)
AddPatterns(sources, text, patterns) ==
    IF patterns = <<>> THEN sources
    ELSE AddPatterns(AddMatches(sources, text, Head(patterns)), text,
                     Tail(patterns))

\* lines 14-76
extractSourcesFromText(text) == AddPatterns(<<>>, text, Patterns)

\* the page a pattern of extractPageFromChunkText reads off a token, 0 when
\* no pattern matches it: "page: 7" matches /page\s*[:=]\s*(\d+)/i, the
\* bare words "page 7" match none of the nine patterns
PageLabel(t) == IF t = "p7" THEN 7 ELSE 0
MAX_PAGE == 10000

\* lines 78-100: the first match whose number is within 0 < p < 10000
extractPageFromChunkText(text) ==
    LET labelled == SelectSeq(text, LAMBDA t : /\ PageLabel(t) > 0
                                               /\ PageLabel(t) < MAX_PAGE)
    IN  IF labelled = <<>> THEN NoPage ELSE PageLabel(Head(labelled))

\* mutant: addSource pushes without looking
addSourceNoDedup(sources, src) == Append(sources, src)

\* lines 216-223
addSource(sources, src) ==
    IF Has(sources, src) THEN sources ELSE Append(sources, src)

RECURSIVE addSources(_, _)
addSources(sources, srcs) ==
    IF srcs = <<>> THEN sources
    ELSE addSources(addSource(sources, Head(srcs)), Tail(srcs))

\* a result of a file search: a filename ("" when absent) and the text of
\* the chunk (empty when absent)
Result(filename, text) == [filename |-> filename, text |-> text]

\* lines 255-266: what one result adds
AddResult(sources, result) ==
    LET page == IF result.text # <<>>
                THEN extractPageFromChunkText(result.text) ELSE NoPage
        named == IF result.filename # ""
                 THEN addSource(sources, Source(result.filename, page))
                 ELSE sources
    IN  IF result.text # <<>>
        THEN addSources(named, extractSourcesFromText(result.text))
        ELSE named

RECURSIVE AddResults(_, _)
AddResults(sources, results) ==
    IF results = <<>> THEN sources
    ELSE AddResults(AddResult(sources, Head(results)), Tail(results))

\* lines 278-284: the filenames of the annotations, without a page
RECURSIVE AddAnnotations(_, _)
AddAnnotations(sources, annotations) ==
    IF annotations = <<>> THEN sources
    ELSE AddAnnotations(addSource(sources, Source(Head(annotations), NoPage)),
                        Tail(annotations))

\* lines 286-294: the results of an output item, with the page of the chunk
RECURSIVE AddItemResults(_, _)
AddItemResults(sources, results) ==
    IF results = <<>> THEN sources
    ELSE LET r == Head(results)
             page == IF r.text # <<>> THEN extractPageFromChunkText(r.text)
                     ELSE NoPage
             next == IF r.filename # ""
                     THEN addSource(sources, Source(r.filename, page))
                     ELSE sources
         IN  AddItemResults(next, Tail(results))

\* lines 297-311: the deep scan reaches the same results again and adds
\* their filenames without a page
RECURSIVE Scan(_, _)
Scan(sources, results) ==
    IF results = <<>> THEN sources
    ELSE LET next == IF Head(results).filename # ""
                     THEN addSource(sources,
                                    Source(Head(results).filename, NoPage))
                     ELSE sources
         IN  Scan(next, Tail(results))

\* lines 317-322: the answer text is searched when the events gave nothing
Fallback(sources, text) ==
    IF Len(sources) = 0 THEN addSources(sources, extractSourcesFromText(text))
    ELSE sources

KnownFiles == <<"Policies001.pdf", "PoliciesEn001.pdf">>
\* fullText.includes(kf.replace(".pdf", "")) || fullText.includes(kf)
Mentions(text, kf) ==
    \E i \in 1..Len(text) : text[i] = "F" /\ kf = "Policies001.pdf"

RECURSIVE AddMentioned(_, _, _)
AddMentioned(sources, text, files) ==
    IF files = <<>> THEN sources
    ELSE LET next == IF Mentions(text, Head(files))
                     THEN addSource(sources, Source(Head(files), NoPage))
                     ELSE sources
         IN  AddMentioned(next, text, Tail(files))

\* lines 324-332: the names of the known files are looked for in the answer
ExtraFallback(sources, text) ==
    IF Len(sources) = 0 THEN AddMentioned(sources, text, KnownFiles)
    ELSE sources

\* a.document.localeCompare(b.document) orders the names
\* Policies001.pdf < PoliciesEn001.pdf < Policy.pdf (a digit before a
\* letter, "i" before "y")
DocRank(d) ==
    CASE d = "Policies001.pdf" -> 1
      [] d = "PoliciesEn001.pdf" -> 2
      [] d = "Policy.pdf" -> 3
      [] OTHER -> 4

\* lines 335-339: the comparator of the sort
Compare(a, b) ==
    IF a.document # b.document THEN DocRank(a.document) - DocRank(b.document)
    ELSE PageKey(a) - PageKey(b)

\* Array.prototype.sort is stable: an entry goes behind the entries it
\* does not precede
RECURSIVE Insert(_, _)
Insert(sorted, s) ==
    IF sorted = <<>> THEN <<s>>
    ELSE IF Compare(s, Head(sorted)) < 0 THEN <<s>> \o sorted
    ELSE <<Head(sorted)>> \o Insert(Tail(sorted), s)

RECURSIVE InsertAll(_, _)
InsertAll(sorted, sources) ==
    IF sources = <<>> THEN sorted
    ELSE InsertAll(Insert(sorted, Head(sources)), Tail(sources))

\* mutant: the list is sent in the order of arrival
SortSourcesSkipped(sources) == sources

\* lines 334-339
SortSources(sources) == InsertAll(<<>>, sources)

\* lines 317-339: the sources the done frame carries
FinalSources(sources, text) ==
    SortSources(ExtraFallback(Fallback(sources, text), text))

----------------------------------------------------------------------------
(* The answer text: cleaning, lines 341-347, and lib/content-filter.ts *)

\* .replace(/【\d+:\d+†.+?】/g, "").replace(/\[DOCUMENT:...\]/g, "")
StripMarkers(text) == SelectSeq(text, LAMBDA t : t # "M")

SourcesHeadings == {"S", "SA"}
IsSourcesLine(t) == t \in SourcesHeadings
HasSourcesLine(text) == \E i \in 1..Len(text) : IsSourcesLine(text[i])
\* mutant: the Sources line stays in place
StripSourcesLineKept(text) == text

\* .replace(/\n?\n?(Sources:|المصادر:)[\s\S]*$/m, ""): the first heading and
\* all that follows it
StripSourcesLine(text) ==
    LET i == FirstIndex(text, SourcesHeadings)
    IN  IF i = 0 THEN text ELSE SubSeq(text, 1, i - 1)

\* lines 342-347: cleanedText
CleanedText(text) == StripSourcesLine(StripMarkers(text))

LeakageMatches == {"L"}
IsLeak(t) == t \in LeakageMatches
\* content-filter.ts lines 117-132: a match of a leakage pattern is removed
\* with up to 200 characters that follow it; a text of the model is shorter
\* than that, so all that follows the first match goes with it
filterOutput(text) ==
    LET i == FirstIndex(text, LeakageMatches)
    IN  IF i = 0 THEN text ELSE SubSeq(text, 1, i - 1)

\* lines 341-352: safeAnswer
CleanAnswer(text) == filterOutput(CleanedText(text))

\* safeAnswer.includes("لم يتم العثور") ||
\* safeAnswer.includes("Not found in the provided")
IncludesNotFound(text) == \E i \in 1..Len(text) : text[i] = "NF"
\* lines 355-358
isNotFoundAnswer(safeAnswer) ==
    safeAnswer = <<>> \/ IncludesNotFound(safeAnswer)

----------------------------------------------------------------------------
(* The frames and the handlers of the loop *)

\* mutant: the markers are stripped from a delta in flight
DeltaFrameStripped(d) == [type |-> "delta", text |-> StripMarkers(d)]

DeltaFrame(d) == [type |-> "delta", text |-> d]

\* mutant: the done frame carries cleanedText as it is
DoneFrameUnfiltered(text, sources) ==
    [type |-> "done", answer |-> CleanedText(text), sources |-> sources,
     noSources |-> Len(sources) = 0 /\ isNotFoundAnswer(CleanedText(text))]

\* lines 367-376
DoneFrame(text, sources) ==
    [type |-> "done", answer |-> CleanAnswer(text), sources |-> sources,
     noSources |-> Len(sources) = 0 /\ isNotFoundAnswer(CleanAnswer(text))]
ErrorFrame == [type |-> "error", error |-> "errMsg"]

\* controller.enqueue(frame) on a stream the client has cancelled throws a
\* TypeError; thrown in the try block it reaches the catch block, whose own
\* enqueue throws again, so start() rejects and nothing is delivered
Enqueue(r, frame) ==
    IF cancelled[r]
    THEN /\ pc' = [pc EXCEPT ![r] = "threw"]
         /\ UNCHANGED frames
    ELSE /\ frames' = [frames EXCEPT ![r] = Append(@, frame)]
         /\ UNCHANGED pc

\* an upstream event: its type and the parts of it the loop reads
Event(kind, delta, results, annotations) ==
    [type |-> kind, delta |-> delta, results |-> results,
     annotations |-> annotations]

Consume(r, event) ==
    /\ pc[r] = "streaming"
    /\ Len(upstream[r]) < MaxEvents
    /\ upstream' = [upstream EXCEPT ![r] = Append(@, event)]
    /\ readsAfterAbort' = [readsAfterAbort EXCEPT ![r] =
                               IF cancelled[r] THEN @ + 1 ELSE @]

\* a response.output_text.delta event, lines 236-245
TextDelta(r, d) ==
    /\ Consume(r, Event("response.output_text.delta", d, <<>>, <<>>))
    /\ IF d # <<>>
       THEN /\ fullText' = [fullText EXCEPT ![r] = @ \o d]
            /\ Enqueue(r, DeltaFrame(d))
       ELSE UNCHANGED <<fullText, frames, pc>>
    /\ UNCHANGED <<now, ticks, pdfVars, rlVars, rateCheck, msg, filterResult, response, upstreamCalls,
                   allSources, filtered, cancelled, clientVars>>

\* mutant: an event that carries nothing fails the stream
OtherEventFails(r, kind) ==
    /\ Consume(r, Event(kind, <<>>, <<>>, <<>>))
    /\ Enqueue(r, ErrorFrame)
    /\ UNCHANGED <<now, ticks, pdfVars, rlVars, rateCheck, msg, filterResult,
                   response, upstreamCalls, fullText, allSources, filtered,
                   cancelled, clientVars>>

\* an event of another kind, or a file-search event without results: no
\* text, no frame, no source
OtherEvent(r, kind) ==
    /\ Consume(r, Event(kind, <<>>, <<>>, <<>>))
    /\ UNCHANGED <<now, ticks, pdfVars, rlVars, admVars, fullText, allSources, filtered,
                   frames, cancelled, clientVars>>

\* a response.file_search_call.results (.searching, .completed) event with
\* results, lines 246-267
SearchResults(r, results) ==
    /\ Consume(r, Event("response.file_search_call.results", <<>>, results,
                        <<>>))
    /\ allSources' = [allSources EXCEPT ![r] = AddResults(@, results)]
    /\ UNCHANGED <<now, ticks, pdfVars, rlVars, admVars, fullText, filtered, frames,
                   cancelled, clientVars>>

\* a response.output_text.done event, lines 268-271
TextDone(r) ==
    /\ Consume(r, Event("response.output_text.done", <<>>, <<>>, <<>>))
    /\ allSources' = [allSources EXCEPT ![r] =
                          addSources(@, extractSourcesFromText(fullText[r]))]
    /\ UNCHANGED <<now, ticks, pdfVars, rlVars, admVars, fullText, filtered, frames,
                   cancelled, clientVars>>

\* a response.completed (response.done) event, lines 272-312: the
\* annotations of the output, the results of its file-search items, and
\* the deep scan of the whole response
ResponseCompleted(r, annotations, results) ==
    /\ Consume(r, Event("response.completed", <<>>, results, annotations))
    /\ allSources' = [allSources EXCEPT ![r] =
                          Scan(AddItemResults(AddAnnotations(@, annotations),
                                              results),
                               results)]
    /\ UNCHANGED <<now, ticks, pdfVars, rlVars, admVars, fullText, filtered, frames,
                   cancelled, clientVars>>

\* the upstream iterator is exhausted: lines 317-377, the fallbacks, the
\* sort, the cleaning, filterOutput, the done frame and controller.close()
UpstreamEnds(r) ==
    /\ pc[r] = "streaming"
    /\ allSources' = [allSources EXCEPT ![r] = FinalSources(@, fullText[r])]
    /\ filtered' = [filtered EXCEPT ![r] = Append(@, CleanedText(fullText[r]))]
    /\ IF cancelled[r]
       THEN /\ pc' = [pc EXCEPT ![r] = "threw"]
            /\ UNCHANGED frames
       ELSE /\ frames' = [frames EXCEPT ![r] =
                              Append(@, DoneFrame(fullText[r],
                                                  allSources'[r]))]
            /\ pc' = [pc EXCEPT ![r] = "closed"]
    /\ UNCHANGED <<now, ticks, pdfVars, rlVars, rateCheck, msg, filterResult, response, upstreamCalls,
                   upstream, fullText, cancelled, readsAfterAbort, clientVars>>

\* mutant: the catch block does not close the stream
UpstreamFailsKeepsOpen(r) ==
    /\ pc[r] = "streaming"
    /\ Len(frames[r]) <= MaxEvents
    /\ Enqueue(r, ErrorFrame)
    /\ UNCHANGED <<now, ticks, pdfVars, rlVars, rateCheck, msg, filterResult, response, upstreamCalls,
                   upstream, fullText, allSources, filtered, cancelled,
                   readsAfterAbort, clientVars>>

\* the upstream iterator throws (a transport error): lines 378-387, the
\* error frame and controller.close()
UpstreamFails(r) ==
    /\ pc[r] = "streaming"
    /\ IF cancelled[r]
       THEN /\ pc' = [pc EXCEPT ![r] = "threw"]
            /\ UNCHANGED frames
       ELSE /\ frames' = [frames EXCEPT ![r] = Append(@, ErrorFrame)]
            /\ pc' = [pc EXCEPT ![r] = "closed"]
    /\ UNCHANGED <<now, ticks, pdfVars, rlVars, rateCheck, msg, filterResult, response, upstreamCalls,
                   upstream, fullText, allSources, filtered, cancelled,
                   readsAfterAbort, clientVars>>

\* the client disconnects while the stream is open; the runtime cancels the
\* response stream.  The ReadableStream has no cancel() and the upstream
\* call was given no abort signal, so start() is not told.
ClientAbort(r) ==
    /\ pc[r] = "streaming"
    /\ ~cancelled[r]
    /\ cancelled' = [cancelled EXCEPT ![r] = TRUE]
    /\ UNCHANGED <<now, ticks, pdfVars, rlVars, admVars, upstream, fullText, allSources,
                   filtered, frames, readsAfterAbort, clientVars>>

----------------------------------------------------------------------------
(* The chat page: the reader loop of handleSendMessage *)

\* dict.chat.errorGeneric
ErrorGeneric == <<"errorGeneric">>

\* page.tsx lines 275-284: the answer of the done frame, or else the text
\* streamed so far; its Sources line goes when the frame has sources
AnswerText(f, streamed) ==
    LET safeAnswer == IF f.answer # <<>> THEN f.answer ELSE streamed
    IN  IF HasSourcesLine(safeAnswer) /\ Len(f.sources) > 0
        THEN StripSourcesLine(safeAnswer)
        ELSE safeAnswer

\* mutant: hasStartedText starts out true
hasStartedTextAlready(r) == clientRead[r] >= 0

\* page.tsx lines 240, 258-261: hasStartedText, set by the first delta frame
hasStartedText(r) ==
    \E i \in 1..clientRead[r] : frames[r][i].type = "delta"

\* the reader loop takes the next frame, page.tsx lines 250-323
ClientReads(r) ==
    /\ ~cancelled[r]
    /\ clientRead[r] < Len(frames[r])
    /\ LET f == frames[r][clientRead[r] + 1]
       IN  /\ clientRead' = [clientRead EXCEPT ![r] = @ + 1]
           /\ IF f.type = "delta"
              THEN /\ streamedText' = [streamedText EXCEPT ![r] = @ \o f.text]
                   /\ display' = [display EXCEPT ![r] =
                                      StripMarkers(streamedText[r] \o f.text)]
                   /\ streamPhase' = [streamPhase EXCEPT ![r] =
                                          IF hasStartedText(r) THEN @
                                          ELSE "generating"]
              ELSE IF f.type = "done"
              THEN /\ display' = [display EXCEPT ![r] =
                                      AnswerText(f, streamedText[r])]
                   /\ streamPhase' = [streamPhase EXCEPT ![r] = "done"]
                   /\ UNCHANGED streamedText
              ELSE /\ display' = [display EXCEPT ![r] = ErrorGeneric]
                   /\ UNCHANGED <<streamedText, streamPhase>>
    /\ UNCHANGED <<now, ticks, pdfVars, rlVars, admVars, serverVars>>

----------------------------------------------------------------------------
(* lib/pdf-processor.ts and scripts/setup-knowledge-base.mjs: page tagging *)

\* pages one document has at most
MaxPages == 4
\* the text of a page after trim(): nothing, or words
PageTextValues == {<<>>, <<"a">>, <<"b">>}
DocumentName == "Policy.pdf"

\* the pieces of the tagged text: the marker [DOCUMENT: name | PAGE: n],
\* the text of a page on the next line, and the separator "\n\n---\n\n"
MarkerPiece(name, n) ==
    [kind |-> "marker", document |-> name, page |-> n, text |-> <<>>]
TextPiece(text) == [kind |-> "text", document |-> "", page |-> 0, text |-> text]
Separator == [kind |-> "separator", document |-> "", page |-> 0, text |-> <<>>]

\* mutant: a page is numbered by its place among the pages that are kept
RECURSIVE KeepPagesRenumbered(_, _, _)
KeepPagesRenumbered(pages, texts, i) ==
    IF i > Len(texts) THEN pages
    ELSE KeepPagesRenumbered(
            IF Len(texts[i]) > 0
            THEN Append(pages, [pageNumber |-> Len(pages) + 1, text |-> texts[i]])
            ELSE pages,
            texts, i + 1)

\* pdf-processor.ts lines 63-70: the loop over pageTexts
RECURSIVE KeepPages(_, _, _)
KeepPages(pages, texts, i) ==
    IF i > Len(texts) THEN pages
    ELSE KeepPages(IF Len(texts[i]) > 0
                   THEN Append(pages, [pageNumber |-> i, text |-> texts[i]])
                   ELSE pages,
                   texts, i + 1)

\* mutant of extractPagesFromPDF
extractPagesRenumbered(texts) == KeepPagesRenumbered(<<>>, texts, 1)
\* pdf-processor.ts lines 12-73, from the texts the page renderer collected
extractPagesFromPDF(texts) == KeepPages(<<>>, texts, 1)

\* sections.join("\n\n---\n\n")
RECURSIVE Join(_)
Join(sections) ==
    IF sections = <<>> THEN <<>>
    ELSE IF Len(sections) = 1 THEN Head(sections)
    ELSE Head(sections) \o <<Separator>> \o Join(Tail(sections))

\* pdf-processor.ts lines 79-89
formatPagesForVectorStore(documentName, pages) ==
    Join([i \in 1..Len(pages) |->
            <<MarkerPiece(documentName, pages[i].pageNumber),
              TextPiece(pages[i].text)>>])

\* setup-knowledge-base.mjs lines 143-151: the loop of formatPages
RECURSIVE PushSections(_, _, _, _)
PushSections(sections, filename, texts, i) ==
    IF i > Len(texts) THEN sections
    ELSE PushSections(IF Len(texts[i]) > 0
                      THEN Append(sections, <<MarkerPiece(filename, i),
                                              TextPiece(texts[i])>>)
                      ELSE sections,
                      filename, texts, i + 1)
formatPages(filename, texts) == Join(PushSections(<<>>, filename, texts, 1))

\* the upload route tags a document: route.ts lines 195-206
TagPages ==
    /\ blob = NoBlob
    /\ blob' = formatPagesForVectorStore(DocumentName,
                                         extractPagesFromPDF(pageTexts))
    /\ UNCHANGED <<now, ticks, rlVars, reqVars, pageTexts>>

\* the setup script tags a document: setup-knowledge-base.mjs line 286
TagPagesByScript ==
    /\ blob = NoBlob
    /\ blob' = formatPages(DocumentName, pageTexts)
    /\ UNCHANGED <<now, ticks, rlVars, reqVars, pageTexts>>

----------------------------------------------------------------------------
(* Specifications *)

\* the request/response lifecycle of a request ends, once the client has
\* read what was sent or has gone (page.tsx lines 334-337: the phase is
\* "idle" again); its slot takes the next invocation
Finish(r) ==
    /\ \/ pc[r] \in {"responded", "threw"}
       \/ pc[r] = "closed" /\ (cancelled[r] \/ clientRead[r] = Len(frames[r]))
    /\ pc' = [pc EXCEPT ![r] = "idle"]
    /\ rateCheck' = [rateCheck EXCEPT ![r] = NoRateCheck]
    /\ msg' = [msg EXCEPT ![r] = NoMessage]
    /\ filterResult' = [filterResult EXCEPT ![r] = NoFilterResult]
    /\ response' = [response EXCEPT ![r] = NoResponse]
    /\ upstreamCalls' = [upstreamCalls EXCEPT ![r] = 0]
    /\ upstream' = [upstream EXCEPT ![r] = <<>>]
    /\ fullText' = [fullText EXCEPT ![r] = <<>>]
    /\ allSources' = [allSources EXCEPT ![r] = <<>>]
    /\ filtered' = [filtered EXCEPT ![r] = <<>>]
    /\ frames' = [frames EXCEPT ![r] = <<>>]
    /\ cancelled' = [cancelled EXCEPT ![r] = FALSE]
    /\ readsAfterAbort' = [readsAfterAbort EXCEPT ![r] = 0]
    /\ clientRead' = [clientRead EXCEPT ![r] = 0]
    /\ streamedText' = [streamedText EXCEPT ![r] = <<>>]
    /\ display' = [display EXCEPT ![r] = <<>>]
    /\ streamPhase' = [streamPhase EXCEPT ![r] = "idle"]
    /\ UNCHANGED <<now, ticks, pdfVars, rlVars>>

\* concurrent POST handlers of one client, up to the opening of the stream;
\* the clock advances by just under a minute, so that a rejected request may
\* have a wait of 1 ms and a window empties after two advances
AdmitDeltas == {59999}
NextAdmit ==
    \/ \E d \in AdmitDeltas : Tick(d)
    \/ \E r \in Reqs :
        \/ Post(r)
        \/ BodyMalformed(r)
        \/ \E m \in Messages : ParseBody(r, m)
        \/ ConfigurationFails(r)
        \/ CallUpstream(r)
        \/ UpstreamRefuses(r)
        \/ OpenStream(r)
        \/ Finish(r)

SpecAdmit == Init /\ [][NextAdmit]_vars

\* one chat session at a time, from POST to the last frame the page reads,
\* all within one instant of the clock (the stream loop never reads it).
\* Sessions share no state but the rate limiter's store (fullText, the frames
\* and the page's message are local to a request), whose concurrent use
\* SpecAdmit covers.
Sessions == {"r1"}
ChatMessages == {Missing, Str(12, FALSE, FALSE), Str(12, FALSE, TRUE)}
NextChat ==
    \E r \in Sessions :
        \/ Post(r)
        \/ BodyMalformed(r)
        \/ \E m \in ChatMessages : ParseBody(r, m)
        \/ ConfigurationFails(r)
        \/ CallUpstream(r)
        \/ UpstreamRefuses(r)
        \/ OpenStream(r)
        \/ \E d \in DeltaTexts : TextDelta(r, d)
        \/ \E k \in OtherKinds : OtherEvent(r, k)
        \/ UpstreamEnds(r)
        \/ UpstreamFails(r)
        \/ ClientAbort(r)
        \/ ClientReads(r)
        \/ Finish(r)

SpecChat == Init /\ [][NextChat]_vars

\* one chat session from POST to the done frame and the page's reading of
\* it, with a valid message, an upstream stream that ends normally and a
\* client that stays: the deltas carry every kind of token, the retrieval
\* events carry results
CiteMessage == Str(12, FALSE, FALSE)
CiteDeltas == {<<"a">>, <<"M">>, <<"N">>, <<"L">>, <<"S">>, <<"SA">>, <<"F">>,
               <<"NF">>}
\* a chunk of Policy.pdf that says "... page 7 ...", one labelled
\* "page: 7", and a result with the filename Policies001.pdf alone
ResultSets == {<<Result("Policy.pdf", <<"a", "P7", "a">>)>>,
               <<Result("Policy.pdf", <<"p7">>)>>,
               <<Result("Policies001.pdf", <<>>)>>}
\* a completed response with an annotation, and one with a file-search item
Completions == {[annotations |-> <<"Policy.pdf">>, results |-> <<>>],
                [annotations |-> <<>>,
                 results |-> <<Result("Policy.pdf", <<"p7">>)>>]}
NextCite ==
    \E r \in Sessions :
        \/ Post(r)
        \/ ParseBody(r, CiteMessage)
        \/ CallUpstream(r)
        \/ OpenStream(r)
        \/ \E d \in CiteDeltas : TextDelta(r, d)
        \/ \E results \in ResultSets : SearchResults(r, results)
        \/ TextDone(r)
        \/ \E c \in Completions : ResponseCompleted(r, c.annotations, c.results)
        \/ UpstreamEnds(r)
        \/ ClientReads(r)

SpecCite == Init /\ [][NextCite]_vars

\* filterInput alone, called on a text: empty, blank, within the ceiling, at
\* it and over it, with and without whitespace around the text, matching
\* the abuse patterns, the injection patterns, both or neither
FilterLengths == {0, 12, MAX_MESSAGE_LENGTH, MAX_MESSAGE_LENGTH + 1}
FilterInputs ==
    {Padded(0, p, FALSE, FALSE) : p \in 0..1}
        \cup {Padded(n, p, a, i) : n \in FilterLengths \ {0}, p \in 0..1,
                                  a \in BOOLEAN, i \in BOOLEAN}
InitFilter ==
    /\ now = 0
    /\ ticks = 0
    /\ store = << >>
    /\ admitted = [k \in Keys |-> <<>>]
    /\ rl = <<>>
    /\ pc = [r \in Reqs |-> "idle"]
    /\ rateCheck = [r \in Reqs |-> NoRateCheck]
    /\ msg \in [Reqs -> FilterInputs]
    /\ filterResult = [r \in Reqs |-> NoFilterResult]
    /\ response = [r \in Reqs |-> NoResponse]
    /\ upstreamCalls = [r \in Reqs |-> 0]
    /\ upstream = [r \in Reqs |-> <<>>]
    /\ fullText = [r \in Reqs |-> <<>>]
    /\ allSources = [r \in Reqs |-> <<>>]
    /\ filtered = [r \in Reqs |-> <<>>]
    /\ frames = [r \in Reqs |-> <<>>]
    /\ cancelled = [r \in Reqs |-> FALSE]
    /\ readsAfterAbort = [r \in Reqs |-> 0]
    /\ clientRead = [r \in Reqs |-> 0]
    /\ streamedText = [r \in Reqs |-> <<>>]
    /\ display = [r \in Reqs |-> <<>>]
    /\ streamPhase = [r \in Reqs |-> "idle"]
    /\ pageTexts = NoPages
    /\ blob = NoBlob

\* filterInput(text) is called on the text of a slot
FilterText(r) ==
    /\ filterResult[r] = NoFilterResult
    /\ filterResult' = [filterResult EXCEPT ![r] = filterInput(msg[r])]
    /\ UNCHANGED <<now, ticks, pdfVars, rlVars, pc, rateCheck, msg, response,
                   upstreamCalls, streamVars>>

NextFilter == \E r \in Reqs : FilterText(r)

SpecFilter == InitFilter /\ [][NextFilter]_vars

\* the page tagger alone, on the page texts of one document
PageLists == UNION {[1..n -> PageTextValues] : n \in 0..MaxPages}
InitPages ==
    /\ now = 0
    /\ ticks = 0
    /\ store = << >>
    /\ admitted = [k \in Keys |-> <<>>]
    /\ rl = <<>>
    /\ pc = [r \in Reqs |-> "idle"]
    /\ rateCheck = [r \in Reqs |-> NoRateCheck]
    /\ msg = [r \in Reqs |-> NoMessage]
    /\ filterResult = [r \in Reqs |-> NoFilterResult]
    /\ response = [r \in Reqs |-> NoResponse]
    /\ upstreamCalls = [r \in Reqs |-> 0]
    /\ upstream = [r \in Reqs |-> <<>>]
    /\ fullText = [r \in Reqs |-> <<>>]
    /\ allSources = [r \in Reqs |-> <<>>]
    /\ filtered = [r \in Reqs |-> <<>>]
    /\ frames = [r \in Reqs |-> <<>>]
    /\ cancelled = [r \in Reqs |-> FALSE]
    /\ readsAfterAbort = [r \in Reqs |-> 0]
    /\ clientRead = [r \in Reqs |-> 0]
    /\ streamedText = [r \in Reqs |-> <<>>]
    /\ display = [r \in Reqs |-> <<>>]
    /\ streamPhase = [r \in Reqs |-> "idle"]
    /\ pageTexts \in PageLists
    /\ blob = NoBlob

NextPages == TagPages \/ TagPagesByScript

SpecPages == InitPages /\ [][NextPages]_vars

----------------------------------------------------------------------------
(* Properties of concurrent admission, checked under SpecAdmit *)

ChatKey == Key("chat", ClientIP)
Checked(r) == rateCheck[r].at >= 0
\* the requests in the slots that the rate limiter admitted
Holders == {r \in Reqs : Checked(r) /\ rateCheck[r].res.allowed}
\* suspended at an await of POST, or streaming
InFlight(r) == pc[r] \in {"body", "vectorStore", "create", "streaming"}
Occurrences(seq, t) == Len(SelectSeq(seq, LAMBDA x : x = t))

\* C3: the read-modify-write of checkRateLimit is atomic under every
\* interleaving of concurrent handlers: every admitted request in a slot has
\* a timestamp of its own in the key's history, and that history never holds
\* more than the cap in a window, so of the handlers competing for the last
\* slot of a window at most one is admitted.
C3_AdmissionIsAtomic ==
    /\ \A r \in Holders :
            Cardinality({q \in Holders : rateCheck[q].at = rateCheck[r].at})
                <= Occurrences(admitted[ChatKey], rateCheck[r].at)
    /\ \A e \in WindowEnds(ChatKey) :
            /\ InWindow(ChatKey, e, WINDOW_MS) <= MAX_REQUESTS_PER_MINUTE
            /\ InWindow(ChatKey, e, DAILY_WINDOW_MS) <= MAX_REQUESTS_PER_DAY
    /\ \A r \in Reqs : \A q \in Reqs \ {r} :
            (r \in Holders /\ q \in Holders
                /\ rateCheck[r].at - rateCheck[q].at < WINDOW_MS
                /\ rateCheck[q].at <= rateCheck[r].at)
            => InWindow(ChatKey, rateCheck[r].at, WINDOW_MS) >= 2

\* two handlers of the same instant met a window with one slot left: one is
\* admitted and still in flight, the other was rejected
C3_Witness ==
    \E r \in Reqs : \E q \in Reqs \ {r} :
        /\ r \in Holders /\ InFlight(r)
        /\ Checked(q) /\ ~rateCheck[q].res.allowed
        /\ rateCheck[q].res.reason = "minute"
        /\ rateCheck[q].at = rateCheck[r].at
        /\ admitted[ChatKey][Len(admitted[ChatKey])] = rateCheck[r].at
        /\ InWindow(ChatKey, rateCheck[r].at, WINDOW_MS) = MAX_REQUESTS_PER_MINUTE

\* what the content filter is to block, by the features of the message
BlockCategory(m) ==
    IF m.trimmedLength > MAX_MESSAGE_LENGTH \/ m.abusive THEN "inappropriate"
    ELSE IF m.injection THEN "injection" ELSE "none"
ValidMessage(m) == m.kind = "string" /\ m.trimmedLength > 0
\* the request passed the rate limiter, validation and the content filter
Admitted(r) ==
    /\ r \in Holders
    /\ ValidMessage(msg[r])
    /\ BlockCategory(msg[r]) = "none"

\* C6: an admission rejection is a JSON response, never a frame: 429 with
\* Retry-After = ceil(retryAfterMs / 1000) >= 1 for the rate limiter, 400
\* with the filter's category for a blocked message, 400 for a missing or
\* empty message; a failure before the stream opens is a 500.
C6_RejectionsAreJsonResponses ==
    \A r \in Reqs :
        /\ (Checked(r) /\ ~rateCheck[r].res.allowed) =>
                /\ pc[r] = "responded"
                /\ response[r].status = 429
                /\ response[r].retryAfter >= 1
                /\ response[r].retryAfter * MS_PER_SECOND
                        >= rateCheck[r].res.retryAfterMs
                /\ (response[r].retryAfter - 1) * MS_PER_SECOND
                        < rateCheck[r].res.retryAfterMs
        /\ (r \in Holders /\ msg[r].kind # "none" /\ ~ValidMessage(msg[r])) =>
                /\ pc[r] = "responded"
                /\ response[r].status = 400
                /\ response[r].error = "Message is required."
        /\ (r \in Holders /\ ValidMessage(msg[r])
                /\ BlockCategory(msg[r]) # "none") =>
                /\ pc[r] = "responded"
                /\ response[r].status = 400
                /\ response[r].error = "content_blocked"
                /\ response[r].errorCategory = BlockCategory(msg[r])
        /\ (pc[r] = "responded" /\ (Admitted(r) \/ msg[r].kind = "none")
                /\ r \in Holders) =>
                response[r].status = 500
        /\ pc[r] = "responded" =>
                /\ response[r].contentType = "application/json"
                /\ frames[r] = <<>>

\* a 429 whose wait is not a whole number of seconds
C6_Witness ==
    \E r \in Reqs :
        /\ pc[r] = "responded" /\ response[r].status = 429
        /\ rateCheck[r].res.retryAfterMs % MS_PER_SECOND # 0
\* a message blocked as an injection attempt
C6_BlockedWitness ==
    \E r \in Reqs :
        /\ response[r].status = 400 /\ response[r].errorCategory = "injection"

----------------------------------------------------------------------------
(* Properties of a chat session, checked under SpecChat *)

\* C5 as stated: a request rejected by the rate limiter, by validation or by
\* the content filter makes no upstream call, and every request that passed
\* all three and was answered made exactly one.
C5_ExactlyOneCallPerAdmitted ==
    \A r \in Reqs :
        /\ (Checked(r) /\ pc[r] # "body" /\ ~Admitted(r)) => upstreamCalls[r] = 0
        /\ (Admitted(r) /\ pc[r] \in {"responded", "streaming", "closed", "threw"})
                => upstreamCalls[r] = 1

\* C5 amended: the upstream call is made only for a request that passed the
\* rate limiter, validation and the content filter, and never twice; such a
\* request makes exactly one call unless a configuration failure answers it
\* with a 500 first, and then none.
C5_UpstreamCallOnlyAfterAdmission ==
    \A r \in Reqs :
        /\ upstreamCalls[r] <= 1
        /\ upstreamCalls[r] = 1 => Admitted(r)
        /\ (Checked(r) /\ pc[r] # "body" /\ ~Admitted(r)) => upstreamCalls[r] = 0
        /\ pc[r] \in {"create", "streaming", "closed", "threw"}
                => upstreamCalls[r] = 1
        /\ (Admitted(r) /\ upstreamCalls[r] = 0) =>
                \/ pc[r] = "vectorStore"
                \/ pc[r] = "responded" /\ response[r].status = 500

\* the one call of an admitted request was refused and was not repeated
C5_Witness ==
    \E r \in Reqs :
        /\ Admitted(r) /\ pc[r] = "responded"
        /\ response[r].status = 500 /\ upstreamCalls[r] = 1
\* an admitted request that a configuration failure answered without a call
C5_ConfigurationWitness ==
    \E r \in Reqs :
        /\ Admitted(r) /\ pc[r] = "responded"
        /\ response[r].status = 500 /\ upstreamCalls[r] = 0

RECURSIVE Concat(_)
Concat(seqs) == IF seqs = <<>> THEN <<>> ELSE Head(seqs) \o Concat(Tail(seqs))
Texts(events) == [i \in DOMAIN events |-> events[i].delta]
\* the text-delta events a session has consumed, and their texts in order
DeltaEvents(r) ==
    SelectSeq(upstream[r], LAMBDA e : e.type = "response.output_text.delta")
UpstreamDeltaTexts(r) == Texts(DeltaEvents(r))
\* the texts of the delta frames sent, in order
DeltaFrames(r) == SelectSeq(frames[r], LAMBDA f : f.type = "delta")
DeltaFrameTexts(r) == [i \in DOMAIN DeltaFrames(r) |-> DeltaFrames(r)[i].text]

\* C7 as stated: while the client is connected, the delta frames carry the
\* texts of the upstream text-delta events, one frame per event, in order.
C7_OneFramePerDeltaEvent ==
    \A r \in Reqs : ~cancelled[r] => DeltaFrameTexts(r) = UpstreamDeltaTexts(r)

\* C7 amended: the answer buffer is the concatenation of the texts of the
\* text-delta events consumed; while the client is connected, the delta
\* frames carry, unmodified and in order, the texts of the events whose text
\* is not empty (an event with an empty text sends no frame).
C7_DeltasForwardedVerbatim ==
    \A r \in Reqs :
        /\ fullText[r] = Concat(UpstreamDeltaTexts(r))
        /\ ~cancelled[r] =>
                DeltaFrameTexts(r)
                    = SelectSeq(UpstreamDeltaTexts(r), LAMBDA d : d # <<>>)

\* a marker went out in a delta frame, and an empty delta sent none
C7_Witness ==
    \E r \in Reqs :
        /\ ~cancelled[r]
        /\ Len(DeltaFrames(r)) >= 2
        /\ \E i \in DOMAIN DeltaFrames(r) : DeltaFrames(r)[i].text = <<"M">>
        /\ Len(DeltaEvents(r)) > Len(DeltaFrames(r))

Terminal(f) == f.type \in {"done", "error"}
TerminalFrames(r) == SelectSeq(frames[r], Terminal)

\* C8: a session that opened the stream and was not aborted emits exactly
\* one terminal frame when its loop ends, a done frame with the cleaned
\* answer or an error frame, and no frame follows a terminal frame.
C8_OneTerminalFrameLast ==
    \A r \in Reqs :
        /\ Len(TerminalFrames(r)) <= 1
        /\ \A i \in DOMAIN frames[r] : Terminal(frames[r][i]) => i = Len(frames[r])
        /\ pc[r] = "closed" <=> Len(TerminalFrames(r)) = 1
        /\ pc[r] = "threw" => cancelled[r]
        /\ \A i \in DOMAIN frames[r] :
                frames[r][i].type = "done"
                    => frames[r][i].answer = StripMarkers(Concat(UpstreamDeltaTexts(r)))

\* a stream closed by a done frame that follows delta frames
C8_Witness ==
    \E r \in Reqs :
        /\ pc[r] = "closed"
        /\ Len(frames[r]) >= 3
        /\ frames[r][Len(frames[r])].type = "done"
        /\ frames[r][Len(frames[r])].answer # <<>>
        /\ frames[r][Len(frames[r])].answer # fullText[r]

\* C9: after a transport error that follows forwarded text, the text the
\* page showed during streaming is still what it shows once it has read the
\* error frame.
C9_PartialAnswerSurvivesError ==
    \A r \in Reqs :
        (/\ pc[r] = "closed"
         /\ frames[r][Len(frames[r])].type = "error"
         /\ StripMarkers(fullText[r]) # <<>>
         /\ clientRead[r] = Len(frames[r]))
        => display[r] = StripMarkers(streamedText[r])

\* C10: once the client has disconnected, no further upstream event is
\* consumed for the session and no terminal frame is emitted.
C10_AbortCancelsUpstreamRead ==
    \A r \in Reqs :
        /\ readsAfterAbort[r] = 0
        /\ cancelled[r] => Len(TerminalFrames(r)) = 0

----------------------------------------------------------------------------
(* Properties of the sources and of the answer, checked under SpecCite *)

\* the session ended with a done frame
Completed(r) ==
    /\ pc[r] = "closed"
    /\ frames[r] # <<>>
    /\ frames[r][Len(frames[r])].type = "done"
DoneOf(r) == frames[r][Len(frames[r])]
PageLess(s) == s.page = NoPage
Entries(sources) == {sources[i] : i \in 1..Len(sources)}
\* the events of the session so far of one type
EventsOfType(r, kind) == SelectSeq(upstream[r], LAMBDA e : e.type = kind)

\* C11 (as claimed): a page-less source is merged into a page-qualified one
\* of the same document; the sources of a done frame never hold a page-less
\* entry for a document next to an entry of that document with a page.
C11_PageLessMergedIntoPaged ==
    \A r \in Sessions :
        Completed(r) =>
            \A s \in Entries(DoneOf(r).sources) :
                \A t \in Entries(DoneOf(r).sources) :
                    (s.document = t.document /\ PageLess(s)) => PageLess(t)

\* no two entries of a source list have the same document and the same page,
\* an absent page taken as page 0
UniqueKeys(sources) ==
    \A i \in 1..Len(sources) : \A j \in 1..Len(sources) :
        (/\ sources[i].document = sources[j].document
         /\ PageKey(sources[i]) = PageKey(sources[j])) => i = j

\* C12: at every point of a chat session the accumulated source list holds
\* no two entries with the same document and page (an absent page counting
\* as page 0), and neither does the sources list of a done frame.
C12_NoDuplicateSources ==
    \A r \in Sessions :
        /\ UniqueKeys(allSources[r])
        /\ \A i \in 1..Len(frames[r]) :
                frames[r][i].type = "done" => UniqueKeys(frames[r][i].sources)

\* the same file-search results arrived twice and the session ended with
\* one source
C12_Witness ==
    \E r \in Sessions :
        /\ Completed(r)
        /\ Len(DoneOf(r).sources) = 1
        /\ \E i \in 1..Len(upstream[r]) : \E j \in 1..Len(upstream[r]) :
                /\ i < j
                /\ upstream[r][i].type = "response.file_search_call.results"
                /\ upstream[r][i].results # <<>>
                /\ upstream[r][j] = upstream[r][i]

\* s comes before t: by document name, then by page, an absent page as 0
Before(s, t) ==
    \/ DocRank(s.document) < DocRank(t.document)
    \/ s.document = t.document /\ PageKey(s) < PageKey(t)
\* the one ascending arrangement of a set of sources
Ascending(set) ==
    [i \in 1..Cardinality(set) |->
        CHOOSE s \in set : Cardinality({t \in set : Before(t, s)}) = i - 1]
\* the evidence accumulated when the upstream stream ends, the fallbacks on
\* the answer text included
Evidence(r) == ExtraFallback(Fallback(allSources[r], fullText[r]), fullText[r])
IsPrefix(s, t) == Len(s) <= Len(t) /\ SubSeq(t, 1, Len(s)) = s

\* C13: the sources of the done frame are the accumulated evidence in
\* ascending order of document name and then page, a page-less source
\* before the paged ones of its document; the list is a function of the set
\* of evidence, whatever the order of arrival.  The sort happens at
\* finalization only: while the loop runs the list grows in order of arrival.
C13_SourcesSortedAtFinalization ==
    [][\A r \in Sessions :
          /\ (pc[r] = "streaming" /\ pc'[r] = "closed") =>
                /\ frames'[r][Len(frames'[r])].type = "done"
                /\ frames'[r][Len(frames'[r])].sources
                        = Ascending(Entries(Evidence(r)))
          /\ (pc[r] = "streaming" /\ pc'[r] = "streaming") =>
                IsPrefix(allSources[r], allSources'[r])
      ]_vars

\* Policy.pdf page 7 arrived before Policies001.pdf and is sent after it
C13_Witness ==
    \E r \in Sessions :
        /\ Completed(r)
        /\ DoneOf(r).sources = <<Source("Policies001.pdf", NoPage),
                                 Source("Policy.pdf", 7)>>
        /\ \E i \in 1..Len(upstream[r]) : \E j \in 1..Len(upstream[r]) :
                /\ i < j
                /\ upstream[r][i].results = <<Result("Policy.pdf", <<"p7">>)>>
                /\ upstream[r][j].results = <<Result("Policies001.pdf", <<>>)>>

Leaks(text) == \E i \in 1..Len(text) : IsLeak(text[i])

\* C14 (as claimed): no text that matches a leakage pattern of filterOutput
\* is shown to the user: whatever frame the text came in, the content of the
\* assistant message never holds such a match.
C14_NoLeakShown == \A r \in Sessions : ~Leaks(display[r])

\* C15: filterOutput is applied once per completed session, after the
\* upstream stream has ended, to the assembled answer with its markers and
\* Sources line stripped; while the stream runs it is applied to nothing, so
\* every delta frame carries its delta as it came; the answer of a done
\* frame is what filterOutput returned.
C15_FilterOnceOnFinalAnswer ==
    \A r \in Sessions :
        /\ pc[r] = "streaming" => filtered[r] = <<>>
        /\ DeltaFrameTexts(r)
                = SelectSeq(UpstreamDeltaTexts(r), LAMBDA d : d # <<>>)
        /\ Completed(r) =>
                /\ filtered[r] = <<CleanedText(Concat(UpstreamDeltaTexts(r)))>>
                /\ DoneOf(r).answer = filterOutput(filtered[r][1])
        /\ \A i \in 1..Len(frames[r]) :
                frames[r][i].type = "done" => i = Len(frames[r])

\* a delta with a leakage match went out as it came, and the done frame
\* carries the answer without it
C15_Witness ==
    \E r \in Sessions :
        /\ Completed(r)
        /\ \E i \in 1..Len(DeltaFrames(r)) : Leaks(DeltaFrames(r)[i].text)
        /\ Leaks(filtered[r][1])
        /\ DoneOf(r).answer # <<>>
        /\ ~Leaks(DoneOf(r).answer)

\* the literal "not found" phrase
NotFoundPhrase == <<"NF">>
\* the page has read every frame of the session
AllRead(r) == clientRead[r] = Len(frames[r])

\* C16 (as claimed): when a session completes with no sources and an empty
\* cleaned answer, the user is shown the literal "not found" phrase, not an
\* empty message; and the done frame reports evidence (noSources false)
\* exactly when it has sources or its answer is non-empty and is not a "not
\* found" answer.
C16_NotFoundPhraseSurfaced ==
    \A r \in Sessions :
        /\ (/\ Completed(r)
            /\ AllRead(r)
            /\ DoneOf(r).sources = <<>>
            /\ CleanedText(fullText[r]) = <<>>) => display[r] = NotFoundPhrase
        /\ Completed(r) =>
                (~DoneOf(r).noSources
                    <=> \/ DoneOf(r).sources # <<>>
                        \/ /\ DoneOf(r).answer # <<>>
                           /\ ~IncludesNotFound(DoneOf(r).answer))

\* the events of the session brought a retrieval result or an annotation
Retrieved(r) ==
    \E i \in 1..Len(upstream[r]) :
        upstream[r][i].results # <<>> \/ upstream[r][i].annotations # <<>>

\* C17 (as claimed): a stream with no retrieval results whose answer is the
\* "not found" phrase ends with no sources, and no source is made up from a
\* file name the answer mentions without a citation marker: with no
\* retrieval result and no marker in the answer, the done frame has no
\* sources.
C17_NoFabricatedSource ==
    \A r \in Sessions :
        (Completed(r) /\ ~Retrieved(r)) =>
            /\ fullText[r] = NotFoundPhrase => DoneOf(r).sources = <<>>
            /\ extractSourcesFromText(fullText[r]) = <<>>
                    => DoneOf(r).sources = <<>>

\* the file-search events of the session that carried results
ResultEvents(r) ==
    SelectSeq(upstream[r], LAMBDA e : e.results # <<>> \/ e.annotations # <<>>)

\* C18 (as claimed): the answer "[DOCUMENT: Policy.pdf | PAGE: 5]\ntext"
\* with one retrieval-result event {filename: "Policy.pdf", text: "... page
\* 7 ..."} ends with the sources Policy.pdf page 5 and Policy.pdf page 7, in
\* that order, and no other entry.
C18_MarkerAndChunkPage ==
    \A r \in Sessions :
        (/\ Completed(r)
         /\ fullText[r] = <<"M", "a">>
         /\ ResultEvents(r)
                = <<Event("response.file_search_call.results", <<>>,
                          <<Result("Policy.pdf", <<"a", "P7", "a">>)>>, <<>>)>>)
        => DoneOf(r).sources = <<Source("Policy.pdf", 5), Source("Policy.pdf", 7)>>

\* C19 (as claimed): extraction finds nothing in a cleaned answer: every
\* marker extractSourcesFromText recognizes has been removed by the
\* cleaning step.
C19_ExtractionEmptyOnCleanedAnswer ==
    \A r \in Sessions :
        Completed(r) => extractSourcesFromText(CleanedText(fullText[r])) = <<>>

\* the answer ends with a Sources line, its only one
TrailingSourcesLine(text) ==
    /\ text # <<>>
    /\ FirstIndex(text, SourcesHeadings) = Len(text)
\* the text before the last token
Preceding(text) == SubSeq(text, 1, Len(text) - 1)
\* what the page shows for an answer that has no Sources line: the cleaned
\* and filtered answer, or the text as streamed when that is empty
ShownWithoutSourcesLine(text) ==
    IF filterOutput(StripMarkers(text)) # <<>>
    THEN filterOutput(StripMarkers(text))
    ELSE text

C20_ArabicWitness ==
    \E r \in Sessions :
        /\ Completed(r)
        /\ AllRead(r)
        /\ fullText[r] = <<"M", "SA">>
        /\ DoneOf(r).answer = <<>>
        /\ display[r] = <<"M">>

----------------------------------------------------------------------------
(* Properties of filterInput, checked under SpecFilter *)

Filtered(r) == filterResult[r] # NoFilterResult
\* the first of the four checks that matches the text, in the order of the
\* function
FirstCheck(m) ==
    IF m.trimmedLength = 0 THEN "empty"
    ELSE IF m.trimmedLength > MAX_MESSAGE_LENGTH THEN "length"
    ELSE IF m.abusive THEN "abuse"
    ELSE IF m.injection THEN "injection"
    ELSE "none"
CategoryOf(check) ==
    CASE check = "empty" -> "offtopic"
      [] check = "length" -> "inappropriate"
      [] check = "abuse" -> "inappropriate"
      [] check = "injection" -> "injection"
      [] OTHER -> "none"

\* C21 (as claimed): the empty string is blocked, every string of 2001
\* characters is blocked, and a string that matches an injection pattern is
\* blocked as "injection" unless an earlier check blocked it.
C21_Every2001CharacterStringBlocked ==
    \A r \in Reqs :
        Filtered(r) =>
            /\ Length(msg[r]) = 0 => filterResult[r].blocked
            /\ Length(msg[r]) = MAX_MESSAGE_LENGTH + 1 => filterResult[r].blocked
            /\ FirstCheck(msg[r]) = "injection" =>
                    /\ filterResult[r].blocked
                    /\ filterResult[r].category = "injection"

\* C21: filterInput trims the text and then applies its checks in the order
\* empty, length ceiling, abuse patterns, injection patterns; the first
\* check that matches decides alone.  The empty (or blank) string is
\* blocked, every string whose trimmed text is longer than 2000 characters
\* is blocked, and a string that matches an injection pattern is blocked as
\* "injection" unless an earlier check blocked it.
C21_FirstMatchingCheckDecides ==
    \A r \in Reqs :
        Filtered(r) =>
            /\ filterResult[r].blocked <=> FirstCheck(msg[r]) # "none"
            /\ filterResult[r].category = CategoryOf(FirstCheck(msg[r]))
            /\ msg[r].trimmedLength = 0 => filterResult[r].blocked
            /\ msg[r].trimmedLength > MAX_MESSAGE_LENGTH => filterResult[r].blocked

\* a text that matches both pattern sets was blocked as inappropriate, and
\* a clean text of 2001 characters, one of them a blank at its end, passed
C21_Witness ==
    \E r \in Reqs : \E q \in Reqs :
        /\ Filtered(r) /\ msg[r].abusive /\ msg[r].injection
        /\ msg[r].trimmedLength <= MAX_MESSAGE_LENGTH
        /\ filterResult[r].category = "inappropriate"
        /\ Filtered(q) /\ Length(msg[q]) = MAX_MESSAGE_LENGTH + 1
        /\ ~filterResult[q].blocked

----------------------------------------------------------------------------
(* Properties of the page tagger, checked under SpecPages *)

Tagged == blob # NoBlob
Markers == SelectSeq(blob, LAMBDA piece : piece.kind = "marker")
\* the 1-based positions of the pages that have text
NonEmptyPages == {i \in 1..Len(pageTexts) : pageTexts[i] # <<>>}

\* C22: for a document with at least one non-empty page the tagged text
\* holds one marker [DOCUMENT: name | PAGE: n] per non-empty page, in page
\* order, and none for an empty page; n is the 1-based position of the page
\* in the original page sequence; each marker is followed by the text of its
\* page, and the blocks are joined by the separator.
C22_OneMarkerPerNonEmptyPage ==
    (Tagged /\ NonEmptyPages # {}) =>
        /\ Len(Markers) = Cardinality(NonEmptyPages)
        /\ {Markers[i].page : i \in 1..Len(Markers)} = NonEmptyPages
        /\ \A i \in 1..Len(Markers) : \A j \in 1..Len(Markers) :
                i < j => Markers[i].page < Markers[j].page
        /\ \A i \in 1..Len(Markers) : Markers[i].document = DocumentName
        /\ Len(blob) = 3 * Len(Markers) - 1
        /\ \A k \in 1..Len(blob) :
                /\ k % 3 = 1 => blob[k].kind = "marker"
                /\ k % 3 = 2 => /\ blob[k].kind = "text"
                                /\ blob[k].text = pageTexts[blob[k - 1].page]
                /\ k % 3 = 0 => blob[k] = Separator

\* a document whose first and third pages are empty: its second page is
\* tagged PAGE 2 and its fourth PAGE 4
C22_Witness ==
    /\ pageTexts = <<<<>>, <<"a">>, <<>>, <<"b">>>>
    /\ blob = <<MarkerPiece(DocumentName, 2), TextPiece(<<"a">>), Separator,
                MarkerPiece(DocumentName, 4), TextPiece(<<"b">>)>>

----------------------------------------------------------------------------
(* Properties of the stream loop and the chat page, checked under SpecChat *)

\* the event types the stream loop has a branch for, route.ts lines 236-272
HandledKinds ==
    {"response.output_text.delta", "response.file_search_call.results",
     "response.file_search_call.searching",
     "response.file_search_call.completed", "response.output_text.done",
     "response.completed", "response.done"}
Last(s) == s[Len(s)]
\* the events of a handled type among those consumed
HandledEvents(r) ==
    SelectSeq(upstream[r], LAMBDA event : event.type \in HandledKinds)
\* request r has just consumed an event of a type the loop has no branch for
UnhandledConsumed(r) ==
    /\ Len(upstream'[r]) = Len(upstream[r]) + 1
    /\ Last(upstream'[r]).type \notin HandledKinds

\* C23: an upstream event of a type the loop has no branch for is ignored:
\* consuming it enqueues no frame, leaves the answer buffer and the sources
\* as they were, and neither fails nor ends the stream, so the events after
\* it meet the state they would have met without it.
C23_UnhandledEventIgnored ==
    [][\A r \in Sessions :
          UnhandledConsumed(r) =>
              /\ frames'[r] = frames[r]
              /\ fullText'[r] = fullText[r]
              /\ allSources'[r] = allSources[r]
              /\ filtered'[r] = filtered[r]
              /\ pc'[r] = "streaming"]_vars

\* an unhandled event came between two text deltas, and the answer and the
\* frames are those of the two deltas alone
C23_Witness ==
    \E r \in Sessions :
        /\ Len(upstream[r]) = 3
        /\ upstream[r][2].type \notin HandledKinds
        /\ Len(HandledEvents(r)) = 2
        /\ fullText[r] = <<"a", "M">>
        /\ frames[r] = <<DeltaFrame(<<"a">>), DeltaFrame(<<"M">>)>>
        /\ pc[r] = "streaming"

\* the frames enqueued for request r that its client has not read yet
QueuedFrames(r) == Len(frames[r]) - clientRead[r]

\* C24: while the client reads more slowly than text deltas arrive, the
\* frames queued for it stay within a fixed bound, below the number of
\* deltas the upstream produces.
C24_QueuedFramesBounded ==
    \A r \in Sessions : QueuedFrames(r) < MaxEvents

ReadOfType(r, type) == \E i \in 1..clientRead[r] : frames[r][i].type = type
\* this step the page reads a frame of the given type
Reads(r, type) ==
    /\ clientRead'[r] = clientRead[r] + 1
    /\ frames[r][clientRead'[r]].type = type
\* the request has met its end: the done frame or the error frame was read,
\* or the client aborted
MetItsEnd(r) == ReadOfType(r, "done") \/ ReadOfType(r, "error") \/ cancelled[r]

\* C27: within a request the phase marker moves forward only, from
\* searching to generating to done.  It becomes generating on the first
\* delta frame and on nothing else, it becomes done on the done frame and on
\* nothing else, and no frame moves it back.  The error frame and the abort
\* are met in searching and in generating alike; once the request has met
\* its end the marker enters no further phase, it is only reset to idle when
\* the request is over, and leaves idle only for searching at the next send.
C27_PhaseOnlyAdvances ==
    [][\A r \in Sessions :
          /\ (Reads(r, "delta") /\ ~ReadOfType(r, "delta"))
                => streamPhase'[r] = "generating"
          /\ Reads(r, "done") => streamPhase'[r] = "done"
          /\ streamPhase'[r] # streamPhase[r] =>
                \/ streamPhase[r] = "idle" /\ streamPhase'[r] = "searching"
                \/ streamPhase'[r] = "idle"
                \/ /\ streamPhase[r] = "searching"
                   /\ streamPhase'[r] = "generating"
                   /\ Reads(r, "delta")
                   /\ ~MetItsEnd(r)
                \/ /\ streamPhase[r] \in {"searching", "generating"}
                   /\ streamPhase'[r] = "done"
                   /\ Reads(r, "done")
                   /\ ~MetItsEnd(r)]_vars

\* the marker went through generating to done
C27_Witness ==
    \E r \in Sessions :
        /\ streamPhase[r] = "done"
        /\ ReadOfType(r, "delta")
        /\ ReadOfType(r, "done")
\* the error frame met while generating, and while searching
C27_ErrorWhileGenerating ==
    \E r \in Sessions : streamPhase[r] = "generating" /\ ReadOfType(r, "error")
C27_ErrorWhileSearching ==
    \E r \in Sessions : streamPhase[r] = "searching" /\ ReadOfType(r, "error")
\* the abort met while generating
C27_AbortWhileGenerating ==
    \E r \in Sessions : streamPhase[r] = "generating" /\ cancelled[r]
\* done reached without a delta frame: the answer was empty
C27_DoneWithoutGenerating ==
    \E r \in Sessions :
        streamPhase[r] = "done" /\ ~ReadOfType(r, "delta")

----------------------------------------------------------------------------
(* The quota of rejected and failed requests, checked under SpecAdmit *)

\* the requests in the slots whose timestamp is t
HoldersAt(t) == {q \in Holders : rateCheck[q].at = t}
\* request r was answered with the given status
Answered(r, status) == pc[r] = "responded" /\ response[r].status = status

\* C29: the timestamp of a chat request is in the store from the rate check
\* on, before the body is read: a request answered 400 or 500 passed the
\* check and its timestamp is in the store, one for each such request, so it
\* counts in the per-minute and daily windows; and no step of the handler
\* takes a timestamp less than 24h old out of the store.
C29_RejectedRequestKeepsItsSlot ==
    /\ [](\A r \in Reqs :
            (pc[r] = "body" \/ Answered(r, 400) \/ Answered(r, 500)) =>
                /\ r \in Holders
                /\ now - rateCheck[r].at < DAILY_WINDOW_MS =>
                        Cardinality(HoldersAt(rateCheck[r].at))
                            <= Occurrences(Stored(ChatKey), rateCheck[r].at))
    /\ [][\A i \in DOMAIN Stored(ChatKey) :
            now' - Stored(ChatKey)[i] < DAILY_WINDOW_MS =>
                Occurrences(Stored(ChatKey)', Stored(ChatKey)[i])
                    >= Occurrences(Stored(ChatKey), Stored(ChatKey)[i])]_vars

\* a request answered 400, which never reached the upstream, counts in the
\* minute window: another request of the same instant is rejected
C29_Witness ==
    \E r \in Reqs : \E q \in Reqs \ {r} :
        /\ Answered(r, 400) /\ upstreamCalls[r] = 0
        /\ Answered(q, 429) /\ rateCheck[q].res.reason = "minute"
        /\ rateCheck[q].at = rateCheck[r].at
\* a request blocked by the content filter holds a timestamp in the store
C29_BlockedWitness ==
    \E r \in Reqs :
        /\ Answered(r, 400) /\ response[r].error = "content_blocked"
        /\ Occurrences(Stored(ChatKey), rateCheck[r].at) > 0
\* a failed request holds a timestamp in the store
C29_FailedWitness ==
    \E r \in Reqs :
        /\ Answered(r, 500)
        /\ Occurrences(Stored(ChatKey), rateCheck[r].at) > 0

----------------------------------------------------------------------------
(* The wait returned with a rejection, checked under SpecRL *)

\* the call made in this step is the retry of the rejected call before it:
\* same key, no call in between, made when the returned wait has passed
RetryAfterWait(ip, e) ==
    /\ Check(ip, e)
    /\ rl # <<>>
    /\ Call.key = Key(e, ip)
    /\ ~Call.res.allowed
    /\ now = Call.at + Call.res.retryAfterMs

\* C30: a client rejected at time t with retryAfterMs = r, for either
\* reason, that makes no other request of the endpoint and comes back at
\* t + r is admitted.
C30_RetryAfterWaitAdmitted ==
    [][\A ip \in IPs, e \in Endpoints :
          RetryAfterWait(ip, e) => rl'[1].res.allowed]_vars

====
